---- MODULE Spec2Model ----
(***************************************************************************)
(* Dictionary-entry resolution of auto-anki-maker / yasashii.              *)
(*                                                                         *)
(* The state is the module-level dictionary list jmdict_words, the calls   *)
(* made so far with what they returned, and the objects those calls handed *)
(* to the caller (which the caller may mutate afterwards).                 *)
(*                                                                         *)
(* A run of the command line program adds the dataset file it loads, its   *)
(* arguments, the stage it has reached and the messages it has logged; the *)
(* Anki client adds the API calls made with what the server answered.      *)
(*                                                                         *)
(* Strings whose characters matter (query words, form texts, ids) are      *)
(* sequences of one-character strings; other texts are atomic strings.     *)
(***************************************************************************)
EXTENDS Integers, Sequences, FiniteSets, TLC

VARIABLES jmdict_words, calls, live, vocabulary, budget, mutations, epoch,
          dataset, argv, stage, log, posts

\* the state of a program run and of the Anki client
runVars == <<dataset, argv, stage, log, posts>>

vars == <<jmdict_words, calls, live, vocabulary, budget, mutations, epoch,
          runVars>>

(***************************************************************************)
(* Bounds of the exploration.                                              *)
(***************************************************************************)
MaxEntries == 2
MaxForms == 3
MaxCalls == 2
MaxMutations == 1

(***************************************************************************)
(* Characters and texts.                                                   *)
(***************************************************************************)
Q == "'"
BS == "\\"
A == <<"a">>
B == <<"b">>
C == <<"c">>
QuoteText == <<Q>>
EscQuoteText == <<BS, Q>>
TrailingBS == <<"a", BS>>

(***************************************************************************)
(* Python helpers.                                                         *)
(***************************************************************************)
\* dict.get(key, default): a key listed in obj.missing is absent.
Get(obj, key, default) == IF key \in obj.missing THEN default ELSE obj[key]

\* seq[-n:], the slice from the other end
TakeLast(s, n) == IF Len(s) <= n THEN s ELSE SubSeq(s, Len(s) - n + 1, Len(s))

\* seq[:n]
Take(s, n) == IF Len(s) <= n THEN s ELSE SubSeq(s, 1, n)

Range(s) == {s[i] : i \in 1..Len(s)}

Digits == "0" :> 0 @@ "1" :> 1 @@ "2" :> 2 @@ "3" :> 3 @@ "4" :> 4 @@
          "5" :> 5 @@ "6" :> 6 @@ "7" :> 7 @@ "8" :> 8 @@ "9" :> 9

DigitChars == <<"0", "1", "2", "3", "4", "5", "6", "7", "8", "9">>

\* int(s) succeeds on a non-empty string of decimal digits.
IsInt(s) == Len(s) > 0 /\ \A i \in 1..Len(s) : s[i] \in DOMAIN Digits

RECURSIVE IntOf(_)
IntOf(s) == IF Len(s) = 0 THEN 0
            ELSE 10 * IntOf(SubSeq(s, 1, Len(s) - 1)) + Digits[s[Len(s)]]

\* str(n) for n >= 0, as one string per digit.
RECURSIVE StrOf(_)
StrOf(n) == IF n < 10 THEN <<DigitChars[n + 1]>>
            ELSE StrOf(n \div 10) \o <<DigitChars[(n % 10) + 1]>>

(***************************************************************************)
(* The dictionary data (jmdict-with-examples.json, key "words").           *)
(***************************************************************************)
Form(text, common) == [text |-> text, common |-> common, missing |-> {}]

Gloss(text) == [text |-> text, missing |-> {}]

Sentence(text, land) == [text |-> text, land |-> land, missing |-> {}]

Example(text, sentences) == [text |-> text, sentences |-> sentences, missing |-> {}]

Sense(gloss, pos, examples) ==
    [gloss |-> gloss, partOfSpeech |-> pos, examples |-> examples, missing |-> {}]

SenseNoPos(gloss, examples) ==
    [gloss |-> gloss, partOfSpeech |-> <<>>, examples |-> examples,
     missing |-> {"partOfSpeech"}]

Entry(id, kanji, kana, sense) ==
    [id |-> id, kanji |-> kanji, kana |-> kana, sense |-> sense, missing |-> {}]

EntryNoId(kanji, kana, sense) ==
    [id |-> <<>>, kanji |-> kanji, kana |-> kana, sense |-> sense, missing |-> {"id"}]

\* the object without the key (blank stands where the value was)
Without(obj, key, blank) ==
    [obj EXCEPT ![key] = blank, !.missing = @ \cup {key}]

(***************************************************************************)
(* _get_jp_word: the two JMESPath queries.                                 *)
(*                                                                         *)
(* The word is pasted between two quotes of the expression text            *)
(* [?kanji[?text=='<word>']], which JMESPath then tokenizes: inside a raw  *)
(* string literal a backslash takes the next character with it, a quote    *)
(* ends the literal, and in the finished literal every \' stands for '.    *)
(* Over the characters modelled here, whatever follows an early closing    *)
(* quote is never a valid rest of the expression, so compile() raises.     *)
(***************************************************************************)
RECURSIVE ConsumeUntil(_, _, _)
ConsumeUntil(w, i, buff) ==
    IF i > Len(w) THEN [ok |-> TRUE, buff |-> buff]
    ELSE IF w[i] = BS
         THEN IF i = Len(w)
              THEN [ok |-> FALSE, buff |-> buff]
              ELSE ConsumeUntil(w, i + 2, buff \o <<BS, w[i + 1]>>)
         ELSE IF w[i] = Q
              THEN [ok |-> FALSE, buff |-> buff]
              ELSE ConsumeUntil(w, i + 1, Append(buff, w[i]))

\* str.replace("\\'", "'")
RECURSIVE ReplaceEscapedQuote(_, _)
ReplaceEscapedQuote(buff, i) ==
    IF i > Len(buff) THEN <<>>
    ELSE IF i < Len(buff) /\ buff[i] = BS /\ buff[i + 1] = Q
         THEN <<Q>> \o ReplaceEscapedQuote(buff, i + 2)
         ELSE <<buff[i]>> \o ReplaceEscapedQuote(buff, i + 1)

\* The literal the compiled expression compares form texts with.
RawStringLiteral(word) ==
    LET r == ConsumeUntil(word, 1, <<>>)
    IN  IF r.ok
        THEN [ok |-> TRUE, value |-> ReplaceEscapedQuote(r.buff, 1)]
        ELSE [ok |-> FALSE, value |-> <<>>]

\* [?kanji[?text=='...']] / [?kana[?text=='...']]: a new list that holds the
\* matching entries of words (here: their positions), in dataset order.
Search(words, field, literal) ==
    SelectSeq([i \in 1..Len(words) |-> i],
              LAMBDA i : \E k \in Range(Get(words[i], field, <<>>)) :
                             "text" \notin k.missing /\ k.text = literal)

(***************************************************************************)
(* _filter_and_rank_results                                                *)
(***************************************************************************)
DefaultId == <<"9", "9", "9", "9", "9", "9">>

AnyCommon(x, field) ==
    \E k \in Range(Get(x, field, <<>>)) : Get(k, "common", FALSE)

\* int(x.get('id', '999999')) raises ValueError on a non-numeric id.
IdParses(x) == IsInt(Get(x, "id", DefaultId))

\* the key without the minus signs: common entries sort last
SortKeyCommonLast(x) ==
    <<IF AnyCommon(x, "kanji") THEN 1 ELSE 0,
      IF AnyCommon(x, "kana") THEN 1 ELSE 0,
      IntOf(Get(x, "id", DefaultId))>>

SortKey(x) ==
    <<IF AnyCommon(x, "kanji") THEN -1 ELSE 0,
      IF AnyCommon(x, "kana") THEN -1 ELSE 0,
      IntOf(Get(x, "id", DefaultId))>>

\* "not greater" in place of "less"
KeyLessOrEqual(k1, k2) ==
    \/ k1[1] < k2[1]
    \/ k1[1] = k2[1] /\ k1[2] < k2[2]
    \/ k1[1] = k2[1] /\ k1[2] = k2[2] /\ k1[3] <= k2[3]

\* tuple comparison
KeyLess(k1, k2) ==
    \/ k1[1] < k2[1]
    \/ k1[1] = k2[1] /\ k1[2] < k2[2]
    \/ k1[1] = k2[1] /\ k1[2] = k2[2] /\ k1[3] < k2[3]

\* list.sort(key=...) is stable: an element goes behind every element whose
\* key is not greater than its own.
RECURSIVE InsertByKey(_, _, _)
InsertByKey(words, sorted, i) ==
    IF sorted = <<>> THEN <<i>>
    ELSE IF KeyLess(SortKey(words[i]), SortKey(words[Head(sorted)]))
         THEN <<i>> \o sorted
         ELSE <<Head(sorted)>> \o InsertByKey(words, Tail(sorted), i)

RECURSIVE SortResults(_, _)
SortResults(words, results) ==
    IF results = <<>> THEN <<>>
    ELSE InsertByKey(words,
                     SortResults(words, SubSeq(results, 1, Len(results) - 1)),
                     results[Len(results)])

\* results[0] without .copy(): the stored dict itself
NoCopyEntry(words, i) == [ref |-> i, val |-> words[i]]

\* results[0].copy(): a new dict (ref 0) with the items of the stored entry.
CopyEntry(words, i) == [ref |-> 0, val |-> words[i]]

\* obj['sense'] = sense: lands in the stored entry only if obj is that entry.
SetSense(words, obj, sense) ==
    [obj |-> [obj EXCEPT !.val.sense = sense],
     words |-> IF obj.ref = 0 THEN words
               ELSE [words EXCEPT ![obj.ref].sense = sense]]

NoEntry == EntryNoId(<<>>, <<>>, <<>>)

Returned(kind, exc, best, selected, ranked, words) ==
    [kind |-> kind, exc |-> exc, best |-> best, selected |-> selected,
     ranked |-> ranked, words |-> words]

\* a choice that falls back to the first candidate that has senses
BestWithSense(words, ranked) ==
    IF \E p \in 1..Len(ranked) : Get(words[ranked[p]], "sense", <<>>) # <<>>
    THEN ranked[CHOOSE p \in 1..Len(ranked) :
                    /\ Get(words[ranked[p]], "sense", <<>>) # <<>>
                    /\ \A q \in 1..(p - 1) :
                           Get(words[ranked[q]], "sense", <<>>) = <<>>]
    ELSE ranked[1]

\* results[0]: the first of the ranked candidates, whatever it holds
Best(words, ranked) == ranked[1]

FilterAndRank(words, results, prefer_common, max_senses) ==
    IF results = <<>> THEN Returned("none", "", NoEntry, 0, <<>>, words)
    ELSE IF prefer_common /\ \E i \in Range(results) : ~IdParses(words[i])
    THEN Returned("raise", "ValueError", NoEntry, 0, <<>>, words)
    ELSE LET ranked == IF prefer_common THEN SortResults(words, results)
                       ELSE results
             best_result == CopyEntry(words, Best(words, ranked))
             truncate == max_senses # 0
                         /\ Len(Get(best_result.val, "sense", <<>>)) > max_senses
             set == SetSense(words, best_result,
                             Take(best_result.val.sense, max_senses))
         IN  IF truncate
             THEN Returned("entry", "", set.obj.val, Best(words, ranked), ranked,
                           set.words)
             ELSE Returned("entry", "", best_result.val, Best(words, ranked),
                           ranked, words)

(***************************************************************************)
(* _get_jp_word                                                            *)
(***************************************************************************)
NotRun == <<0>>

\* max_senses: 0 (no limit), 1 (_get_primary_meaning), 3 (the default)
MaxSensesValues == {0, 1, 3}

JpWord(words, word, prefer_common, max_senses) ==
    LET lit == RawStringLiteral(word)
        kanji == Search(words, "kanji", lit.value)
        kana == Search(words, "kana", lit.value)
        none == Returned("none", "", NoEntry, 0, <<>>, words)
    IN  IF ~lit.ok
        THEN [ret |-> Returned("raise", "JMESPathError", NoEntry, 0, <<>>, words),
              kanji_query |-> NotRun, kana_query |-> NotRun, results |-> <<>>]
        ELSE IF kanji # <<>>
        THEN [ret |-> FilterAndRank(words, kanji, prefer_common, max_senses),
              kanji_query |-> kanji, kana_query |-> NotRun, results |-> kanji]
        ELSE IF kana # <<>>
        THEN [ret |-> FilterAndRank(words, kana, prefer_common, max_senses),
              kanji_query |-> kanji, kana_query |-> kana, results |-> kana]
        ELSE [ret |-> none,
              kanji_query |-> kanji, kana_query |-> kana, results |-> <<>>]

(***************************************************************************)
(* _get_primary_meaning (yasashii) / get_primary_meaning (auto_anki_maker) *)
(***************************************************************************)
DefaultMaxExamples == 2

Texts(seq) == [i \in 1..Len(seq) |-> seq[i].text]

\* the comprehension without the [:2] slice
CommonTextsUncut(forms) ==
    Texts(SelectSeq(forms, LAMBDA k : Get(k, "common", FALSE)))

\* [k['text'] for k in forms if k.get('common', False)][:2]
CommonTexts(forms) ==
    Take(Texts(SelectSeq(forms, LAMBDA k : Get(k, "common", FALSE))), 2)

\* k['text'] raises KeyError for a common form that has no 'text'
CommonTextsRaise(forms) ==
    \E k \in Range(forms) : Get(k, "common", FALSE) /\ "text" \in k.missing

\* the comprehension without its "if s.get('land') == ..." filter
SentencesOfAnyLand(example, land) ==
    LET sentences == Get(example, "sentences", <<>>)
    IN  [i \in 1..Len(sentences) |-> Get(sentences[i], "text", "")]

\* [s.get('text', '') for s in example.get('sentences', []) if s.get('land') == land]
SentencesOf(example, land) ==
    LET sentences == SelectSeq(Get(example, "sentences", <<>>),
                               LAMBDA s : "land" \notin s.missing /\ s.land = land)
    IN  [i \in 1..Len(sentences) |-> Get(sentences[i], "text", "")]

NoPair == [japanese |-> "", english |-> ""]

RECURSIVE ExamplePairs(_)
ExamplePairs(raw) ==
    IF raw = <<>> THEN <<>>
    ELSE LET example == Head(raw)
             jpn_sentences == SentencesOf(example, "jpn")
             eng_sentences == SentencesOf(example, "eng")
         IN  IF jpn_sentences # <<>> /\ eng_sentences # <<>>
             THEN <<[japanese_text |-> Get(example, "text", ""),
                     sentences |-> [japanese |-> jpn_sentences[1],
                                    english |-> eng_sentences[1]]]>>
                  \o ExamplePairs(Tail(raw))
             ELSE ExamplePairs(Tail(raw))

\* the quota applied to the pairs found instead of the examples looked at
ExtractExamplesQuotaOnPairs(primary_sense, max_examples) ==
    Take(ExamplePairs(Get(primary_sense, "examples", <<>>)), max_examples)

\* an examples list that outlives the call (one list object for all calls)
ExtractExamplesShared(primary_sense, max_examples) ==
    (IF live = <<>> THEN <<>> ELSE live[Len(live)].rec.examples)
    \o ExamplePairs(Take(Get(primary_sense, "examples", <<>>), max_examples))

\* examples = [] ... for example in primary_sense.get('examples', [])[:max_examples]
ExtractExamples(primary_sense, max_examples) ==
    ExamplePairs(Take(Get(primary_sense, "examples", <<>>), max_examples))

\* [g['text'] for g in primary_sense.get('gloss', [])]
Meanings(primary_sense) == Texts(Get(primary_sense, "gloss", <<>>))

\* g['text'] raises KeyError for a gloss that has no 'text'
MeaningsRaise(primary_sense) ==
    \E g \in Range(Get(primary_sense, "gloss", <<>>)) : "text" \in g.missing

\* '\n'.join([f"{i+1}. {meaning}" for i, meaning in enumerate(meanings)])
RECURSIVE FormatMeanings(_, _)
FormatMeanings(meanings, i) ==
    IF i > Len(meanings) THEN <<>>
    ELSE (IF i = 1 THEN <<>> ELSE <<"\n">>)
         \o StrOf(i) \o <<".", " ", meanings[i]>>
         \o FormatMeanings(meanings, i + 1)

NoRecord ==
    [word |-> <<>>, readings |-> <<>>, kanji |-> <<>>, meanings |-> <<>>,
     part_of_speech |-> <<>>, examples |-> <<>>]

NoRef == <<0, 0>>

\* primary_sense.get('partOfSpeech', []): the list stored in the dictionary,
\* or a new empty list when the key is absent.
PartOfSpeechRef(primary_sense, selected) ==
    IF "partOfSpeech" \in primary_sense.missing THEN NoRef ELSE <<selected, 1>>

\* "if result:" alone, without "and result.get('sense')"
HasSenseUnchecked(result) == result.kind = "entry"

\* if result and result.get('sense'):
HasSense(result) ==
    result.kind = "entry" /\ Get(result.best, "sense", <<>>) # <<>>

\* the exception of result['sense'][0] and of the comprehensions over
\* g['text'] and k['text'], "" when none of them raises
RecordRaises(result) ==
    IF "sense" \in result.best.missing THEN "KeyError"
    ELSE IF result.best.sense = <<>> THEN "IndexError"
    ELSE IF \/ MeaningsRaise(result.best.sense[1])
            \/ CommonTextsRaise(Get(result.best, "kana", <<>>))
            \/ CommonTextsRaise(Get(result.best, "kanji", <<>>))
         THEN "KeyError"
         ELSE ""

\* lines 81-122, for the value jp that _get_jp_word returned
MeaningOf(jp, word, variant, max_examples) ==
    IF HasSense(jp.ret) /\ RecordRaises(jp.ret) # ""
    THEN [jp |-> jp, kind |-> "raise", exc |-> RecordRaises(jp.ret),
          rec |-> NoRecord, pos_ref |-> NoRef]
    ELSE IF HasSense(jp.ret)
    THEN LET primary_sense == jp.ret.best.sense[1]
             meanings == Meanings(primary_sense)
         IN  [jp |-> jp, kind |-> "record", exc |-> "",
              rec |-> [word |-> word,
                       readings |-> CommonTexts(Get(jp.ret.best, "kana", <<>>)),
                       kanji |-> CommonTexts(Get(jp.ret.best, "kanji", <<>>)),
                       meanings |-> IF variant = "yasashii"
                                    THEN FormatMeanings(meanings, 1)
                                    ELSE meanings,
                       part_of_speech |-> Get(primary_sense, "partOfSpeech", <<>>),
                       examples |-> ExtractExamples(primary_sense, max_examples)],
              pos_ref |-> PartOfSpeechRef(primary_sense, jp.ret.selected)]
    ELSE [jp |-> jp,
          kind |-> IF jp.ret.kind = "raise" THEN "raise" ELSE "none",
          exc |-> jp.ret.exc, rec |-> NoRecord, pos_ref |-> NoRef]

\* result = self._get_jp_word(self.word, prefer_common=True, max_senses=1)
PrimaryMeaning(words, word, variant, max_examples) ==
    MeaningOf(JpWord(words, word, TRUE, 1), word, variant, max_examples)

(***************************************************************************)
(* What a call leaves behind: the call with its arguments and outcome, and *)
(* the object handed to the caller.                                        *)
(***************************************************************************)
Call(op, word, prefer_common, max_senses, max_examples, jp, kind, exc, rec) ==
    [op |-> op, word |-> word, prefer_common |-> prefer_common,
     max_senses |-> max_senses, max_examples |-> max_examples, kind |-> kind, exc |-> exc, record |-> rec,
     entry |-> jp.ret.best, kanji_query |-> jp.kanji_query,
     kana_query |-> jp.kana_query, results |-> jp.results,
     ranked |-> jp.ret.ranked, selected |-> jp.ret.selected,
     epoch |-> epoch, words |-> jmdict_words]

Bump(words) == IF words = jmdict_words THEN epoch ELSE epoch + 1

\* the state after a call that returned (or raised) and left jp behind
Returns(op, word, prefer_common, max_senses, max_examples, jp, kind, exc, rec, pos_ref) ==
    /\ calls' = Append(calls, Call(op, word, prefer_common, max_senses,
                                   max_examples, jp, kind, exc, rec))
    /\ live' = Append(live, [rec |-> rec, pos_ref |-> pos_ref])
    /\ jmdict_words' = jp.ret.words
    /\ epoch' = Bump(jp.ret.words)

Resolved(op, word, max_examples, m) ==
    Returns(op, word, TRUE, 1, max_examples, m.jp, m.kind, m.exc, m.rec,
            m.pos_ref)

Looked(word, prefer_common, max_senses, jp) ==
    Returns("jp", word, prefer_common, max_senses, 0, jp, jp.ret.kind,
            jp.ret.exc, NoRecord, NoRef)

\* JapaneseWord(word) in yasashii: __init__ stores _get_primary_meaning().
ResolveYasashii(word) ==
    /\ budget > 0
    /\ Resolved("yasashii", word, DefaultMaxExamples,
                PrimaryMeaning(jmdict_words, word, "yasashii", DefaultMaxExamples))
    /\ budget' = budget - 1
    /\ UNCHANGED <<vocabulary, mutations, runVars>>

\* max_examples: the default and a smaller quota
MaxExamplesValues == {1, DefaultMaxExamples}

\* JapaneseWord(word).get_primary_meaning(max_examples) in auto_anki_maker.
ResolveAuto(word, max_examples) ==
    /\ budget > 0
    /\ Resolved("auto", word, max_examples,
                PrimaryMeaning(jmdict_words, word, "auto", max_examples))
    /\ budget' = budget - 1
    /\ UNCHANGED <<vocabulary, mutations, runVars>>

\* _get_jp_word(word, prefer_common, max_senses) called on its own.
GetJpWord(word, prefer_common, max_senses) ==
    /\ budget > 0
    /\ Looked(word, prefer_common, max_senses,
              JpWord(jmdict_words, word, prefer_common, max_senses))
    /\ budget' = budget - 1
    /\ UNCHANGED <<vocabulary, mutations, runVars>>

(***************************************************************************)
(* The caller changes a record it was given: it appends an element to one  *)
(* of the record's lists.  A list object that the record shares with the   *)
(* dictionary or with another record changes for all its holders.          *)
(***************************************************************************)
ListFields == {"readings", "kanji", "meanings", "part_of_speech", "examples"}

Marker(field) ==
    IF field \in {"readings", "kanji"} THEN <<"m">>
    ELSE IF field = "examples"
         THEN [japanese_text |-> "m", sentences |-> NoPair]
         ELSE "m"

AppendTo(obj, field) ==
    [obj EXCEPT !.rec[field] = Append(obj.rec[field], Marker(field))]

CallerMutates(i, field) ==
    /\ mutations < MaxMutations
    /\ i \in 1..Len(calls)
    /\ calls[i].kind = "record"
    \* in yasashii 'meanings' is a str, which has no in-place operations
    /\ ~(field = "meanings" /\ calls[i].op = "yasashii")
    /\ LET ref == live[i].pos_ref
           shared == field = "part_of_speech" /\ ref # NoRef
       IN  /\ live' = [j \in 1..Len(live) |->
                          IF j = i \/ (shared /\ live[j].pos_ref = ref)
                          THEN AppendTo(live[j], field) ELSE live[j]]
           /\ jmdict_words' =
                 IF shared
                 THEN [jmdict_words EXCEPT
                          ![ref[1]].sense[ref[2]].partOfSpeech = Append(@, "m")]
                 ELSE jmdict_words
           /\ epoch' = IF shared THEN epoch + 1 ELSE epoch
    /\ mutations' = mutations + 1
    /\ UNCHANGED <<calls, vocabulary, budget, runVars>>

(***************************************************************************)
(* The dictionaries explored.  Each family varies one aspect of the data.  *)
(***************************************************************************)
SeqsUpTo(pool, n) == UNION {[1..k -> pool] : k \in 0..n}

Sense1 == Sense(<<Gloss("g1")>>, <<"n">>, <<>>)

Sense2 == Sense(<<Gloss("h1"), Gloss("h2")>>, <<"adj">>,
                <<Example("t9", <<Sentence("j9", "jpn"), Sentence("e9", "eng")>>)>>)

\* common flags against ids
FlagPool ==
    {Entry(id, <<Form(A, ck)>>, <<Form(B, cn)>>, <<Sense1>>) :
        id \in {<<"1">>, <<"2">>}, ck \in BOOLEAN, cn \in BOOLEAN}

\* numeric, non-numeric and absent ids
IdPool ==
    {Entry(id, <<Form(A, c)>>, <<Form(B, FALSE)>>, <<Sense1>>) :
        id \in {<<"2">>, <<"1", "0">>, <<"x">>}, c \in BOOLEAN}
    \cup {EntryNoId(<<Form(A, c)>>, <<Form(B, FALSE)>>, <<Sense1>>) : c \in BOOLEAN}

\* the same text as kanji of one entry and kana of another
ShadowPool ==
    {Entry(id, kanji, <<Form(A, c)>>, <<Sense1>>) :
        id \in {<<"1">>, <<"2">>}, kanji \in {<<>>, <<Form(A, FALSE)>>},
        c \in BOOLEAN}

\* texts with ' and \
QuotePool ==
    {Entry(<<"1">>, kanji, kana, <<Sense1>>) :
        kanji \in {<<>>, <<Form(EscQuoteText, TRUE)>>, <<Form(QuoteText, TRUE)>>},
        kana \in {<<Form(A, TRUE)>>, <<Form(QuoteText, TRUE)>>}}

\* several forms per entry
FormPool == {Form(t, c) : t \in {A, B}, c \in BOOLEAN}

FormsIndexes ==
    {<<Entry(<<"1">>, forms, <<Form(C, TRUE)>>, <<Sense1>>)>> :
        forms \in SeqsUpTo(FormPool, MaxForms)}
    \cup {<<Entry(<<"1">>, <<Form(C, TRUE)>>, forms, <<Sense1>>)>> :
        forms \in SeqsUpTo(FormPool, MaxForms)}

\* senses: glosses, tags, examples
ExamplePool ==
    {<<>>,
     <<Example("t1", <<Sentence("j1", "jpn"), Sentence("e1", "eng")>>)>>,
     <<Example("t1", <<Sentence("f1", "fra"), Sentence("j1", "jpn")>>),
       Example("t2", <<Sentence("e2", "eng"), Sentence("f2", "fra"),
                       Sentence("j2", "jpn"), Sentence("j3", "jpn"),
                       Sentence("e3", "eng")>>),
       Example("t3", <<Sentence("j4", "jpn"), Sentence("e4", "eng")>>)>>,
     <<Example("t5", <<Sentence("e5", "eng")>>),
       Example("t6", <<>>)>>}

GlossPool ==
    {<<>>, <<Gloss("g1")>>,
     <<Gloss("g1"), Gloss("g2"), Gloss("g3"), Gloss("g4")>>}

SensePool ==
    {Sense(g, pos, ex) :
        g \in GlossPool, pos \in {<<>>, <<"n", "v">>}, ex \in ExamplePool}
    \cup {SenseNoPos(g, <<>>) : g \in GlossPool}

SenseIndexes ==
    {<<Entry(<<"1">>, <<Form(A, TRUE)>>, <<Form(B, TRUE)>>, senses)>> :
        senses \in {<<>>, <<Sense1, Sense2, Sense1, Sense2>>}
                   \cup {<<s>> : s \in SensePool}
                   \cup {<<s, Sense2>> : s \in SensePool}}

\* entries, senses, examples, forms, glosses and sentences that lack a key
Example0 == Example("t1", <<Sentence("j1", "jpn"), Sentence("e1", "eng")>>)

Sense0 == Sense(<<Gloss("g1")>>, <<"n">>, <<Example0>>)

Entry0 == Entry(<<"1">>, <<Form(A, TRUE)>>, <<Form(B, TRUE)>>, <<Sense0>>)

MalformedSentences ==
    {<<Without(Sentence("j1", "jpn"), "land", ""), Sentence("e1", "eng")>>,
     <<Sentence("j1", "jpn"), Without(Sentence("e1", "eng"), "text", "")>>}

MalformedExamples ==
    {Without(Example0, "sentences", <<>>), Without(Example0, "text", "")}
    \cup {Example("t1", ss) : ss \in MalformedSentences}

MalformedSenses ==
    {Without(Sense0, "gloss", <<>>), Without(Sense0, "examples", <<>>),
     Without(Sense0, "partOfSpeech", <<>>),
     Sense(<<Gloss("g1"), Without(Gloss("g2"), "text", "")>>, <<"n">>, <<>>)}
    \cup {Sense(<<Gloss("g1")>>, <<"n">>, <<ex>>) : ex \in MalformedExamples}

MalformedForms ==
    {<<Form(A, TRUE), Without(Form(B, TRUE), "text", <<>>)>>,
     <<Form(A, TRUE), Without(Form(B, FALSE), "text", <<>>)>>,
     <<Without(Form(B, FALSE), "common", FALSE), Form(A, TRUE)>>,
     <<Without(Form(A, TRUE), "common", FALSE)>>}

MalformedEntries ==
    {Without(Entry0, "kanji", <<>>), Without(Entry0, "kana", <<>>),
     Without(Entry0, "sense", <<>>)}
    \cup {Entry(<<"1">>, <<Form(A, TRUE)>>, <<Form(B, TRUE)>>, <<sn>>) :
              sn \in MalformedSenses}
    \cup {Entry(<<"1">>, forms, <<Form(B, TRUE)>>, <<Sense0>>) :
              forms \in MalformedForms}
    \cup {Entry(<<"1">>, <<Form(B, TRUE)>>, forms, <<Sense0>>) :
              forms \in MalformedForms}

\* one malformed entry alone, or ranked before a well-formed one
MalformedIndexes ==
    {<<e>> : e \in MalformedEntries}
    \cup {<<e, Entry(<<"2">>, <<Form(A, TRUE)>>, <<Form(B, TRUE)>>, <<Sense2>>)>> :
              e \in {Without(Entry0, "sense", <<>>),
                      Entry(<<"1">>, <<Form(A, TRUE)>>, <<Form(B, TRUE)>>, <<>>)}}

\* the best candidate for A has no senses; a lower-ranked candidate and an
\* entry that has A as a reading have
FallbackIndexes ==
    {<<Entry(<<"1">>, <<Form(A, TRUE)>>, <<Form(B, TRUE)>>, <<>>),
       Entry(<<"2">>, <<Form(A, TRUE)>>, <<Form(B, TRUE)>>, <<Sense2>>),
       Entry(<<"3">>, <<Form(C, TRUE)>>, <<Form(A, TRUE)>>, <<Sense1>>)>>,
     <<Without(Entry0, "sense", <<>>),
       Entry(<<"3">>, <<Form(C, TRUE)>>, <<Form(A, TRUE)>>, <<Sense1>>)>>}

\* a family of dictionaries with the words looked up in them
Family(indexes, words) == [indexes |-> indexes, words |-> words]

LookupFamilies ==
    {Family(SeqsUpTo(FlagPool, MaxEntries), {A, B, C}),
     Family(SeqsUpTo(IdPool, MaxEntries), {A, B}),
     Family(SeqsUpTo(ShadowPool, MaxEntries), {A, B}),
     Family(SeqsUpTo(QuotePool, MaxEntries), {A, QuoteText, EscQuoteText, TrailingBS}),
     Family(FormsIndexes, {A, C}),
     Family(SenseIndexes, {A, B}),
     Family(MalformedIndexes, {A, B}),
     Family(FallbackIndexes, {A, C})}

\* dictionaries explored over several calls
HistoryIndexes ==
    {<<Entry(<<"1">>, <<Form(A, TRUE)>>, <<Form(B, TRUE)>>, <<Sense2, Sense1>>)>>,
     <<Entry(<<"2">>, <<Form(A, FALSE)>>, <<Form(B, TRUE)>>, <<Sense1, Sense2>>),
       Entry(<<"1">>, <<Form(A, TRUE)>>, <<Form(B, FALSE)>>,
             <<SenseNoPos(<<Gloss("g1")>>, <<>>)>>)>>,
     <<Entry(<<"x">>, <<Form(A, TRUE)>>, <<Form(C, TRUE)>>, <<Sense1>>),
       Entry(<<"1">>, <<Form(A, TRUE)>>, <<Form(C, TRUE)>>, <<Sense2>>)>>}

HistoryWords == {A}

\* entries with equal flags and ids but different senses
TieIndexes ==
    {<<Entry(<<"2">>, <<Form(A, TRUE)>>, <<Form(B, TRUE)>>, <<Sense1>>),
       Entry(<<"1">>, <<Form(A, TRUE)>>, <<Form(B, TRUE)>>, <<Sense1>>),
       Entry(<<"1">>, <<Form(A, TRUE)>>, <<Form(B, TRUE)>>, <<Sense2>>)>>,
     <<EntryNoId(<<Form(A, FALSE)>>, <<Form(B, TRUE)>>, <<Sense2>>),
       EntryNoId(<<Form(A, FALSE)>>, <<Form(B, TRUE)>>, <<Sense1>>),
       Entry(<<"3">>, <<Form(A, TRUE)>>, <<Form(B, TRUE)>>, <<Sense0>>)>>}

(***************************************************************************)
(* The state machine of the library: lookups on a loaded dictionary.       *)
(***************************************************************************)
NoDataset == [kind |-> "none", words |-> <<>>]

NoArgs == [file |-> [given |-> FALSE, exists |-> FALSE, lines |-> <<>>],
           words |-> <<>>, create |-> FALSE]

\* no program run and no API call
NoRun ==
    /\ dataset = NoDataset
    /\ argv = NoArgs
    /\ stage = "library"
    /\ log = <<>>
    /\ posts = <<>>

Init ==
    /\ NoRun
    /\ \/ /\ \E f \in LookupFamilies :
                 jmdict_words \in f.indexes /\ vocabulary = f.words
          /\ budget = 1
       \/ /\ jmdict_words \in HistoryIndexes \cup TieIndexes
          /\ vocabulary = HistoryWords
          /\ budget = MaxCalls
    /\ calls = <<>>
    /\ live = <<>>
    /\ mutations = 0
    /\ epoch = 0

Next ==
    \/ \E w \in vocabulary : ResolveYasashii(w)
    \/ \E w \in vocabulary, me \in MaxExamplesValues : ResolveAuto(w, me)
    \/ \E w \in vocabulary, pc \in BOOLEAN, ms \in MaxSensesValues :
           GetJpWord(w, pc, ms)
    \/ \E i \in 1..MaxCalls, f \in ListFields : CallerMutates(i, f)

Spec == Init /\ [][Next]_vars

(***************************************************************************)
(* AnkiClient (auto_anki_maker/anki_client.py).                            *)
(*                                                                         *)
(* JSON values of a response are written as their text; None is JSON null. *)
(* A response says how far the HTTP exchange got: the connection failed,   *)
(* the status was an error, the body was not JSON, or the body was parsed. *)
(***************************************************************************)
None == "None"

EmptyList == "[]"

NoteId == "1496198395707"

DuplicateError == "cannot create note because it is a duplicate"

CapitalDuplicateError == "Duplicate note"

OtherError == "deck was not found"

\* f"{error}": the text of an error, cut into the pieces its readers
\* tell apart
Pieces(error) ==
    IF error = DuplicateError
    THEN <<"cannot create note because it is a ", "duplicate">>
    ELSE IF error = CapitalDuplicateError THEN <<"Duplicate", " note">>
    ELSE <<error>>

Data(error, result) == [error |-> error, result |-> result, missing |-> {}]

Response(net, decode, data) == [net |-> net, decode |-> decode, data |-> data]

\* response.json() of a body that is not JSON raises requests' JSONDecodeError
\* (a RequestException) or json's (a ValueError), depending on the version
\* of requests installed.
Responses ==
    {Response(net, "", Data(None, None)) : net \in {"refused", "status"}}
    \cup {Response("ok", d, Data(None, None)) :
              d \in {"requests.JSONDecodeError", "json.JSONDecodeError"}}
    \cup {Response("ok", "", data) :
              data \in {Data(None, NoteId), Data(None, None),
                        Data(DuplicateError, None), Data(OtherError, None),
                        Data(CapitalDuplicateError, None),
                        Without(Without(Data(None, None), "error", None),
                                "result", None)}}

\* a test that forgets .lower()
HasDuplicateAsWritten(text) == \E i \in 1..Len(text) : text[i] = "duplicate"

\* str.lower() of one piece of a message
Lower(piece) == IF piece = "Duplicate" THEN "duplicate" ELSE piece

\* "duplicate" in str(e).lower()
HasDuplicate(text) == \E i \in 1..Len(text) : Lower(text[i]) = "duplicate"

Outcome(kind, exc, text, value) ==
    [kind |-> kind, exc |-> exc, text |-> text, value |-> value]

\* post(): the ValueError raised for a non-null error is raised inside the
\* try block; it is neither a RequestException nor a JSONDecodeError, so
\* the last handler catches it and raises a plain Exception.
Post(payload, response) ==
    IF response.net \in {"refused", "status"}
    THEN Outcome("raise", "requests.RequestException",
                 <<"Failed to connect to Anki Connect API at ">>, None)
    ELSE IF response.decode = "requests.JSONDecodeError"
    THEN Outcome("raise", "requests.RequestException",
                 <<"Failed to connect to Anki Connect API at ">>, None)
    ELSE IF response.decode = "json.JSONDecodeError"
    THEN Outcome("raise", "ValueError",
                 <<"Invalid JSON response from Anki Connect API: ">>, None)
    ELSE IF Get(response.data, "error", None) # None
    THEN Outcome("raise", "Exception",
                 <<"Unexpected error while getting cards: ", "Anki API error: ">>
                 \o Pieces(response.data.error), None)
    ELSE Outcome("return", "", <<>>, Get(response.data, "result", EmptyList))

\* the environment: AUTO_ANKI_DECK_NAME, AUTO_ANKI_CARD_TYPE
DeckName == "Japanese"

CardType == "Basic"

\* ', '.join(parts) for parts that are single strings
RECURSIVE JoinStrings(_)
JoinStrings(parts) ==
    IF parts = <<>> THEN <<>>
    ELSE IF Len(parts) = 1 THEN <<parts[1]>>
    ELSE <<parts[1], ",", " ">> \o JoinStrings(Tail(parts))

\* ', '.join(parts) for parts written character by character
RECURSIVE JoinTexts(_)
JoinTexts(parts) ==
    IF parts = <<>> THEN <<>>
    ELSE IF Len(parts) = 1 THEN parts[1]
    ELSE parts[1] \o <<",", " ">> \o JoinTexts(Tail(parts))

NoPayload == [action |-> "none"]

\* the payload of create_card; card_info has at least one example here
AddNotePayload(card_info) ==
    LET example == card_info.examples[1]
        sentence == example.sentences.japanese
        sentence_translation == example.sentences.english
    IN  [action |-> "addNote",
         version |-> 6,
         deckName |-> DeckName,
         modelName |-> CardType,
         fields |-> [word |-> card_info.word,
                     reading |-> JoinTexts(card_info.readings),
                     meaning |-> JoinStrings(Take(card_info.meanings, 3)),
                     part_of_speech |-> JoinStrings(card_info.part_of_speech),
                     sentence |-> sentence,
                     translation |-> sentence_translation],
         allowDuplicate |-> FALSE,
         duplicateScope |-> "deck",
         duplicateScopeOptions |-> [deckName |-> DeckName,
                                    checkChildren |-> FALSE,
                                    checkAllModels |-> FALSE],
         tags |-> <<"auto-anki">>]

\* what create_card is given: a record, or None
Card(rec, glosses) == [given |-> TRUE, rec |-> rec, glosses |-> glosses]

NoCard == [given |-> FALSE, rec |-> NoRecord, glosses |-> <<>>]

NoResponse == Response("none", "", Data(None, None))

ApiCall(op, pos, card, sent, payload, response, outcome) ==
    [op |-> op, pos |-> pos, card |-> card, sent |-> sent, payload |-> payload,
     response |-> response, kind |-> outcome.kind, exc |-> outcome.exc,
     text |-> outcome.text, value |-> outcome.value]

\* create_card(card_info): card_info.get fails on None (line 106); without
\* examples the names sentence and sentence_translation are never bound and
\* line 125 raises UnboundLocalError before anything is sent.
CreateCardCall(pos, card, response) ==
    IF ~card.given
    THEN ApiCall("create_card", pos, card, FALSE, NoPayload, NoResponse,
                 Outcome("raise", "AttributeError",
                         <<"'NoneType' object has no attribute 'get'">>, None))
    ELSE IF card.rec.examples = <<>>
    THEN ApiCall("create_card", pos, card, FALSE, NoPayload, NoResponse,
                 Outcome("raise", "UnboundLocalError",
                         <<"cannot access local variable 'sentence'">>, None))
    ELSE ApiCall("create_card", pos, card, TRUE, AddNotePayload(card.rec),
                 response, Post(AddNotePayload(card.rec), response))

\* get_cards(deck)
GetCardsCall(deck, response) ==
    LET target_deck == IF deck # None THEN deck ELSE DeckName
        payload == [action |-> "findCards", query |-> <<"deck:", target_deck>>,
                    version |-> 6]
    IN  ApiCall("get_cards", 0, NoCard, TRUE, payload, response,
                Post(payload, response))

\* get_card_info(card_ids)
GetCardInfoCall(card_ids, is_list, response) ==
    LET ids == IF is_list THEN card_ids ELSE <<card_ids>>
        payload == [action |-> "cardsInfo", version |-> 6, cards |-> ids]
    IN  ApiCall("get_card_info", 0, NoCard, TRUE, payload, response,
                Post(payload, response))

(***************************************************************************)
(* The state machine of the Anki client: API calls against a server that   *)
(* answers in any of the ways above.                                       *)
(***************************************************************************)
Sense4 ==
    Sense(<<Gloss("g1"), Gloss("g2"), Gloss("g3"), Gloss("g4")>>, <<"n", "v">>,
          <<Example("t2", <<Sentence("e2", "eng"), Sentence("j2", "jpn")>>),
            Example0>>)

CardEntries ==
    {Entry0,
     Entry(<<"1">>, <<Form(A, TRUE)>>, <<Form(B, TRUE), Form(C, TRUE)>>, <<Sense4>>),
     Entry(<<"1">>, <<Form(A, TRUE)>>, <<Form(B, TRUE)>>, <<Sense1>>)}

Variants == {"yasashii", "auto"}

\* the records of the two JapaneseWord classes for these entries, and None
Cards ==
    {Card(PrimaryMeaning(<<e>>, A, v, DefaultMaxExamples).rec,
          Meanings(e.sense[1])) : e \in CardEntries, v \in Variants}
    \cup {NoCard}

Decks == {None, "Other"}

CardIds == {[ids |-> "7", is_list |-> FALSE], [ids |-> <<"7", "8">>, is_list |-> TRUE]}

NoLibrary ==
    /\ jmdict_words = <<>>
    /\ calls = <<>>
    /\ live = <<>>
    /\ vocabulary = {}
    /\ mutations = 0
    /\ epoch = 0

InitAnki ==
    /\ NoLibrary
    /\ budget = MaxCalls
    /\ dataset = NoDataset
    /\ argv = NoArgs
    /\ stage = "client"
    /\ log = <<>>
    /\ posts = <<>>

\* the client has made one more call
Posted(call) ==
    /\ posts' = Append(posts, call)
    /\ budget' = budget - 1
    /\ UNCHANGED <<jmdict_words, calls, live, vocabulary, mutations, epoch,
                   dataset, argv, stage, log>>

\* AnkiClient.get_cards(deck)
GetCards(deck, response) ==
    /\ stage = "client"
    /\ budget > 0
    /\ Posted(GetCardsCall(deck, response))

\* AnkiClient.get_card_info(card_ids)
GetCardInfo(card_ids, response) ==
    /\ stage = "client"
    /\ budget > 0
    /\ Posted(GetCardInfoCall(card_ids.ids, card_ids.is_list, response))

\* AnkiClient.create_card(card_info)
CreateCard(card, response) ==
    /\ stage = "client"
    /\ budget > 0
    /\ Posted(CreateCardCall(0, card, response))

NextAnki ==
    \/ \E d \in Decks, r \in Responses : GetCards(d, r)
    \/ \E c \in CardIds, r \in Responses : GetCardInfo(c, r)
    \/ \E c \in Cards, r \in Responses : CreateCard(c, r)

SpecAnki == InitAnki /\ [][NextAnki]_vars

(***************************************************************************)
(* The command line program (yasashii/__main__.py).                        *)
(*                                                                         *)
(* log is the trace of a run: the logger's messages with their level, the  *)
(* tables of word_result ("table"), and the JapaneseWord() and             *)
(* create_card() calls ("call"), each with the position of its word.       *)
(***************************************************************************)
Msg(level, msg, pos) == [level |-> level, msg |-> msg, pos |-> pos]

Dataset(kind, words) == [kind |-> kind, words |-> words]

\* what JMDICT_PATH leads to
Datasets ==
    {Dataset(k, <<>>) : k \in {"unset", "missing", "malformed", "array",
                               "no_words", "words_not_list"}}
    \cup {Dataset("words", <<e>>) : e \in CardEntries}

\* lines 17-20: open(None) raises TypeError, a missing file
\* FileNotFoundError, a body that is not JSON JSONDecodeError, a top-level
\* array has no .get (AttributeError).  An object without 'words' gives
\* None and any 'words' value is taken as it is: the filter of the JMESPath
\* query yields null on whatever is not a list, as on a list without a
\* match, so such an index is a dictionary in which nothing is found.
LoadError(d) ==
    IF d.kind = "unset" THEN "TypeError"
    ELSE IF d.kind = "missing" THEN "FileNotFoundError"
    ELSE IF d.kind = "malformed" THEN "JSONDecodeError"
    ELSE IF d.kind = "array" THEN "AttributeError"
    ELSE ""

LoadedIndex(d) == IF d.kind = "words" THEN d.words ELSE <<>>

\* line.strip()
RECURSIVE Strip(_)
Strip(line) ==
    IF line = <<>> THEN <<>>
    ELSE IF Head(line) \in {" ", "\n"} THEN Strip(Tail(line))
    ELSE IF line[Len(line)] \in {" ", "\n"}
         THEN Strip(SubSeq(line, 1, Len(line) - 1))
         ELSE line

\* [line.strip() for line in f if line.strip()]
FileWords(lines) ==
    SelectSeq([i \in 1..Len(lines) |-> Strip(lines[i])], LAMBDA w : w # <<>>)

\* JapaneseWord(word_text) for each word, up to the first that raises
Lookups(ws) ==
    [i \in 1..Len(ws) |->
        PrimaryMeaning(jmdict_words, ws[i], "yasashii", DefaultMaxExamples)]

Raising(ms) == {i \in 1..Len(ms) : ms[i].kind = "raise"}

Performed(ms) ==
    IF Raising(ms) = {} THEN Len(ms)
    ELSE CHOOSE i \in Raising(ms) : \A j \in Raising(ms) : i <= j

LookupEvents(n) == [i \in 1..n |-> Msg("call", "JapaneseWord", i)]

\* word.meaning as create_card receives it
CardOf(m) ==
    IF m.kind = "record"
    THEN Card(m.rec, Meanings(m.jp.ret.best.sense[1]))
    ELSE NoCard

\* JapaneseWord.display()
Display(m, pos) ==
    IF m.kind # "record"
    THEN <<Msg("warning", "No translation found", pos)>>
    ELSE <<Msg("table", "word_result", pos)>>

\* the try block around client.create_card(word.meaning)
CreateEvents(call, pos) ==
    <<Msg("info", "Creating Anki card", pos), Msg("call", "create_card", pos)>>
    \o IF call.kind = "return"
       THEN <<Msg("success", "Successfully created Anki card", pos)>>
       ELSE IF HasDuplicate(call.text)
            THEN <<Msg("warning", "Card already exists in deck", pos)>>
            ELSE <<Msg("error", "Failed to create card", pos)>>

\* what a handler did: its trace, its API calls, the words it looked up
Ran(events, api, looked) == [log |-> events, posts |-> api, looked |-> looked]

\* the second loop of process_multiple_words / process_words_from_file
RECURSIVE DisplayAll(_, _, _, _)
DisplayAll(ms, create, rs, i) ==
    IF i > Len(ms) THEN Ran(<<>>, <<>>, <<>>)
    ELSE LET call == CreateCardCall(i, CardOf(ms[i]), rs[i])
             rest == DisplayAll(ms, create, rs, i + 1)
         IN  IF create
             THEN Ran(Display(ms[i], i) \o CreateEvents(call, i) \o rest.log,
                      <<call>> \o rest.posts, <<>>)
             ELSE Ran(Display(ms[i], i) \o rest.log, rest.posts, <<>>)

\* process_single_word
SingleWord(w, create, r) ==
    LET m == Lookups(<<w>>)[1]
        call == CreateCardCall(1, CardOf(m), r)
        looking == <<Msg("info", "Looking up word", 1), Msg("call", "JapaneseWord", 1)>>
    IN  IF m.kind = "raise"
        THEN Ran(looking \o <<Msg("error", "Error processing word", 1)>>,
                 <<>>, <<w>>)
        ELSE IF m.kind = "record"
        THEN IF create
             THEN Ran(looking \o Display(m, 1) \o CreateEvents(call, 1),
                      <<call>>, <<w>>)
             ELSE Ran(looking \o Display(m, 1), <<>>, <<w>>)
        ELSE Ran(looking \o <<Msg("warning", "No translation found", 1),
                              Msg("info", "Try checking the spelling", 1)>>,
                 <<>>, <<w>>)

\* the two loops shared by the batch modes; the exception of a lookup
\* leaves them and is reported by the caller's handler with on_error
Batch(ws, create, rs, on_error) ==
    LET ms == Lookups(ws)
        n == Performed(ms)
        shown == DisplayAll(ms, create, rs, 1)
    IN  IF Raising(ms) # {}
        THEN Ran(LookupEvents(n) \o <<Msg("error", on_error, n)>>, <<>>,
                 SubSeq(ws, 1, n))
        ELSE Ran(LookupEvents(n) \o shown.log
                 \o <<Msg("success", "Completed processing", 0)>>,
                 shown.posts, ws)

\* process_multiple_words; its exceptions reach main (line 171)
MultipleWords(ws, create, rs) ==
    LET b == Batch(ws, create, rs, "Unexpected error")
    IN  Ran(<<Msg("success", "words to process", 0)>> \o b.log, b.posts, b.looked)

\* process_words_from_file
WordsFromFile(file, create, rs) ==
    LET b == Batch(FileWords(file.lines), create, rs, "Error processing file")
        reading == <<Msg("info", "Reading words from file", 0)>>
    IN  IF ~file.exists
        THEN Ran(reading \o <<Msg("error", "File not found", 0)>>, <<>>, <<>>)
        ELSE Ran(reading \o <<Msg("success", "Found words to process", 0)>>
                 \o b.log, b.posts, b.looked)

\* main(): the closing message, unless an exception reached main
Thanks(ran) ==
    IF \E i \in 1..Len(ran.log) : ran.log[i].msg = "Unexpected error"
    THEN ran
    ELSE Ran(ran.log \o <<Msg("success", "Thanks for using Yasashii", 0)>>,
             ran.posts, ran.looked)

(***************************************************************************)
(* The state machine of a program run.                                     *)
(***************************************************************************)
MaxWords == 2

CliWords == {A, C, QuoteText}

Lines == {A \o <<"\n">>, <<" ">> \o C \o <<"\n">>, <<" ", "\n">>}

NoFile == [given |-> FALSE, exists |-> FALSE, lines |-> <<>>]

Files ==
    {[given |-> TRUE, exists |-> FALSE, lines |-> <<>>]}
    \cup {[given |-> TRUE, exists |-> TRUE, lines |-> ls] :
              ls \in SeqsUpTo(Lines, MaxWords)}

Args ==
    {[file |-> NoFile, words |-> ws, create |-> c] :
        ws \in SeqsUpTo(CliWords, MaxWords), c \in BOOLEAN}
    \cup {[file |-> f, words |-> <<>>, create |-> c] : f \in Files, c \in BOOLEAN}

InitCli ==
    /\ NoLibrary
    /\ budget = 0
    /\ dataset \in Datasets
    /\ argv \in Args
    /\ stage = "start"
    /\ log = <<>>
    /\ posts = <<>>

\* import of yasashii.japanese_word: the module-level dataset load
LoadDataset ==
    /\ stage = "start"
    /\ IF LoadError(dataset) # ""
       THEN /\ stage' = "aborted"
            /\ log' = Append(log, Msg("traceback", LoadError(dataset), 0))
            /\ UNCHANGED jmdict_words
       ELSE /\ stage' = "loaded"
            /\ jmdict_words' = LoadedIndex(dataset)
            /\ UNCHANGED log
    /\ UNCHANGED <<calls, live, vocabulary, budget, mutations, epoch,
                   dataset, argv, posts>>

\* what a handler of main() leaves behind
Finish(ran) ==
    /\ stage' = "done"
    /\ log' = log \o Thanks(ran).log
    /\ posts' = posts \o ran.posts
    /\ calls' = calls \o [i \in 1..Len(ran.looked) |->
                             LET m == Lookups(ran.looked)[i]
                             IN  Call("yasashii", ran.looked[i], TRUE, 1,
                                      DefaultMaxExamples, m.jp, m.kind, m.exc,
                                      m.rec)]
    /\ UNCHANGED <<jmdict_words, live, vocabulary, budget, mutations, epoch,
                   dataset, argv>>

ProcessSingleWord(r) ==
    /\ stage = "loaded"
    /\ ~argv.file.given
    /\ Len(argv.words) = 1
    /\ Finish(SingleWord(argv.words[1], argv.create, r))

ProcessMultipleWords(rs) ==
    /\ stage = "loaded"
    /\ ~argv.file.given
    /\ Len(argv.words) > 1
    /\ Finish(MultipleWords(argv.words, argv.create, rs))

ProcessWordsFromFile(rs) ==
    /\ stage = "loaded"
    /\ argv.file.given
    /\ Finish(WordsFromFile(argv.file, argv.create, rs))

ShowHelp ==
    /\ stage = "loaded"
    /\ ~argv.file.given
    /\ argv.words = <<>>
    /\ Finish(Ran(<<Msg("info", "No arguments provided", 0)>>, <<>>, <<>>))

\* the server's answers during a run: a refused connection, a new note,
\* the errors of the server
CliResponses ==
    {Response("refused", "", Data(None, None))}
    \cup {Response("ok", "", data) :
              data \in {Data(None, NoteId), Data(DuplicateError, None),
                        Data(CapitalDuplicateError, None),
                        Data(OtherError, None)}}

\* one answer per word when cards are created, no request otherwise
Answers(n) ==
    IF argv.create THEN [1..n -> CliResponses]
    ELSE {[i \in 1..n |-> NoResponse]}

NextCli ==
    \/ LoadDataset
    \/ \E rs \in Answers(1) : ProcessSingleWord(rs[1])
    \/ \E rs \in Answers(Len(argv.words)) : ProcessMultipleWords(rs)
    \/ \E rs \in Answers(Len(FileWords(argv.file.lines))) :
           ProcessWordsFromFile(rs)
    \/ ShowHelp

SpecCli == InitCli /\ [][NextCli]_vars

(***************************************************************************)
(* Notions the properties are stated in.                                   *)
(***************************************************************************)
Resolves == {"yasashii", "auto"}

HasForm(e, field, w) == \E k \in Range(Get(e, field, <<>>)) : k.text = w

\* the entries with a form whose text equals w, in dataset order
EqualForms(words, field, w) ==
    SelectSeq([i \in 1..Len(words) |-> i], LAMBDA i : HasForm(words[i], field, w))

HasCommon(e, field) == \E k \in Range(Get(e, field, <<>>)) : k.common

NumericId(e) == IF "id" \in e.missing THEN 999999 ELSE IntOf(e.id)

\* (has no common kanji form, has no common kana form, numeric id)
RankOf(e) ==
    <<IF HasCommon(e, "kanji") THEN 0 ELSE 1,
      IF HasCommon(e, "kana") THEN 0 ELSE 1,
      NumericId(e)>>

RankLeq(r1, r2) ==
    \/ r1[1] < r2[1]
    \/ r1[1] = r2[1] /\ r1[2] < r2[2]
    \/ r1[1] = r2[1] /\ r1[2] = r2[2] /\ r1[3] <= r2[3]

RECURSIVE CommonOf(_)
CommonOf(forms) ==
    IF forms = <<>> THEN <<>>
    ELSE IF Head(forms).common THEN <<Head(forms).text>> \o CommonOf(Tail(forms))
         ELSE CommonOf(Tail(forms))

FirstTwo(s) == IF Len(s) > 2 THEN <<s[1], s[2]>> ELSE s

SelectedEntry(c) == c.words[c.selected]

ResolveStep == Len(calls') = Len(calls) + 1

\* the sense a record is built from
PrimarySense(c) == SelectedEntry(c).sense[1]

HasLand(example, land) == \E s \in Range(example.sentences) : s.land = land

\* the text of the first sentence of the example with the given tag
FirstOfLand(example, land) ==
    LET first == CHOOSE k \in 1..Len(example.sentences) :
                     /\ example.sentences[k].land = land
                     /\ \A j \in 1..(k - 1) : example.sentences[j].land # land
    IN  example.sentences[first].text

PairOf(example) ==
    [japanese_text |-> example.text,
     sentences |-> [japanese |-> FirstOfLand(example, "jpn"),
                    english |-> FirstOfLand(example, "eng")]]

IsValidExample(example) == HasLand(example, "jpn") /\ HasLand(example, "eng")

\* the dictionary with every sense list cut to its first sense
FirstSenseOnly(words) ==
    [e \in 1..Len(words) |->
        IF words[e].sense = <<>> THEN words[e]
        ELSE [words[e] EXCEPT !.sense = <<words[e].sense[1]>>]]

\* the keys whose absence is meant to be tolerated
EntryKeys == {"kanji", "kana", "sense"}

LacksKey(obj, keys) == obj.missing \cap keys # {}

ExampleLacks(ex) ==
    \/ LacksKey(ex, {"sentences", "text"})
    \/ \E st \in Range(ex.sentences) : LacksKey(st, {"land", "text"})

SenseLacks(sn) ==
    \/ LacksKey(sn, {"gloss", "partOfSpeech", "examples"})
    \/ \E g \in Range(sn.gloss) : LacksKey(g, {"text"})
    \/ \E ex \in Range(sn.examples) : ExampleLacks(ex)

EntryLacks(e) ==
    \/ LacksKey(e, EntryKeys)
    \/ \E k \in Range(e.kanji) \cup Range(e.kana) : LacksKey(k, {"text", "common"})
    \/ \E sn \in Range(e.sense) : SenseLacks(sn)

\* the raw examples a call inspects
Inspected(c) == Take(PrimarySense(c).examples, c.max_examples)

MutateStep == mutations' = mutations + 1

(***************************************************************************)
(* C1: a word that equals no kanji text and no kana text of any entry      *)
(* resolves to None: no record, no exception.                              *)
(***************************************************************************)
C1_AbsentWordIsNotFound ==
    \A i \in 1..Len(calls) :
        LET c == calls[i]
        IN  (/\ c.op \in Resolves
             /\ EqualForms(c.words, "kanji", c.word) = <<>>
             /\ EqualForms(c.words, "kana", c.word) = <<>>)
            => c.kind = "none"

(***************************************************************************)
(* C2: the kanji query returns exactly the entries with a kanji form equal *)
(* to the word, and the kana query exactly those with an equal kana form;  *)
(* no character of the word is interpreted.                                *)
(***************************************************************************)
C2_QueriesMatchByEquality ==
    \A i \in 1..Len(calls) :
        LET c == calls[i]
        IN  /\ c.kanji_query = EqualForms(c.words, "kanji", c.word)
            /\ c.kanji_query = <<>>
                  => c.kana_query = EqualForms(c.words, "kana", c.word)

(***************************************************************************)
(* C3: when some entry has a kanji form equal to the word, the selected    *)
(* entry is one of those entries, never one that matches only by kana.     *)
(***************************************************************************)
C3_KanjiShadowsKana ==
    \A i \in 1..Len(calls) :
        LET c == calls[i]
            matches == Range(EqualForms(c.words, "kanji", c.word))
        IN  (matches # {} /\ c.selected # 0) => c.selected \in matches

(***************************************************************************)
(* C4: with prefer_common, the selected entry is a minimum of the result   *)
(* set under (no common kanji, no common kana, numeric id).                *)
(***************************************************************************)
C4_SelectedIsMinimum ==
    \A i \in 1..Len(calls) :
        LET c == calls[i]
        IN  (c.prefer_common /\ c.selected # 0)
            => \A j \in Range(c.results) :
                   RankLeq(RankOf(SelectedEntry(c)), RankOf(c.words[j]))

C4_Witness ==
    \E i \in 1..Len(calls) :
        LET c == calls[i]
        IN  /\ c.prefer_common
            /\ c.selected # 0
            /\ Len(c.results) >= 2
            /\ c.selected # c.results[1]
            /\ RankOf(SelectedEntry(c))[3] < RankOf(c.words[c.results[1]])[3]

(***************************************************************************)
(* C5: a candidate whose id is absent or not a number never makes the      *)
(* lookup raise.                                                           *)
(***************************************************************************)
C5_BadIdNeverRaises ==
    \A i \in 1..Len(calls) :
        LET c == calls[i]
        IN  (\E j \in Range(c.results) :
                 "id" \in c.words[j].missing \/ ~IsInt(c.words[j].id))
            => c.kind # "raise"

(***************************************************************************)
(* C6: a lookup leaves the dictionary as it was: same entries, same order, *)
(* same forms and senses.                                                  *)
(***************************************************************************)
C6_LookupKeepsIndex == [][ResolveStep => jmdict_words' = jmdict_words]_vars

C6_Witness ==
    \E i \in 1..Len(calls) :
        LET c == calls[i]
        IN  /\ c.selected # 0
            /\ c.max_senses # 0
            /\ Len(SelectedEntry(c).sense) > c.max_senses
            /\ Len(c.entry.sense) = c.max_senses
            /\ jmdict_words = c.words

(***************************************************************************)
(* C7: a record shares no list with the dictionary or with another record: *)
(* when the caller changes a list of one record, the dictionary and every  *)
(* other record stay as they were.                                         *)
(***************************************************************************)
C7_RecordsShareNothing ==
    [][MutateStep =>
          /\ jmdict_words' = jmdict_words
          /\ Cardinality({j \in 1..Len(live) : live'[j] # live[j]}) = 1]_vars

C9_FirstTwoCommonForms ==
    \A i \in 1..Len(calls) :
        LET c == calls[i]
        IN  c.kind = "record"
            => /\ c.record.readings = FirstTwo(CommonOf(SelectedEntry(c).kana))
               /\ c.record.kanji = FirstTwo(CommonOf(SelectedEntry(c).kanji))
               /\ Len(c.record.readings) <= 2
               /\ Len(c.record.kanji) <= 2

C9_Witness ==
    \E i \in 1..Len(calls) :
        LET c == calls[i]
        IN  /\ c.kind = "record"
            /\ Len(CommonOf(SelectedEntry(c).kana)) > 2
            /\ Len(c.record.readings) = 2

(***************************************************************************)
(* C10: the record's word is the query string, its glosses are the gloss   *)
(* texts of the first sense, one element per gloss, and its parts of       *)
(* speech are the tags of that sense.                                      *)
(***************************************************************************)
C10_WordGlossesTags ==
    \A i \in 1..Len(calls) :
        LET c == calls[i]
            sense == SelectedEntry(c).sense[1]
        IN  c.kind = "record"
            => /\ c.record.word = c.word
               /\ c.record.meanings = [g \in 1..Len(sense.gloss) |-> sense.gloss[g].text]
               /\ c.record.part_of_speech = sense.partOfSpeech

C12_QuotaOnInspected ==
    \A i \in 1..Len(calls) :
        LET c == calls[i]
            raw == PrimarySense(c).examples
            valid == SelectSeq(Inspected(c), IsValidExample)
        IN  c.kind = "record"
            => /\ c.record.examples = [k \in 1..Len(valid) |-> PairOf(valid[k])]
               /\ Len(c.record.examples) <= c.max_examples
               /\ \A k \in (c.max_examples + 1)..Len(raw) :
                      \A p \in Range(c.record.examples) :
                          p.japanese_text # raw[k].text

C12_Witness ==
    \E i \in 1..Len(calls) :
        LET c == calls[i]
            raw == PrimarySense(c).examples
        IN  /\ c.kind = "record"
            /\ Len(raw) > c.max_examples
            /\ IsValidExample(raw[c.max_examples + 1])
            /\ \E k \in 1..c.max_examples : ~IsValidExample(raw[k])
            /\ c.record.examples # <<>>
            /\ Len(c.record.examples) < c.max_examples

(***************************************************************************)
(* C13: when the selected entry has an empty sense list or none at all,    *)
(* the word resolves to None: no record with empty glosses, no exception.  *)
(***************************************************************************)
C13_NoSenseIsNotFound ==
    \A i \in 1..Len(calls) :
        LET c == calls[i]
        IN  (/\ c.op \in Resolves
             /\ c.selected # 0
             /\ Get(SelectedEntry(c), "sense", <<>>) = <<>>)
            => c.kind = "none"

C13_Witness ==
    \E i \in 1..Len(calls) :
        LET c == calls[i]
        IN  /\ c.op \in Resolves
            /\ c.selected # 0
            /\ "sense" \in SelectedEntry(c).missing
            /\ \E j \in Range(c.results) : c.words[j].sense # <<>>
            /\ c.kind = "none"

(***************************************************************************)
(* C14: only the first sense of an entry has a part in the outcome: the    *)
(* same word resolved against the dictionary with every sense list cut to  *)
(* its first sense gives the same outcome, so two dictionaries that differ *)
(* only in later senses give equal outcomes; the parts of speech are those *)
(* of the first sense.                                                     *)
(***************************************************************************)
C14_OnlyFirstSense ==
    \A i \in 1..Len(calls) :
        LET c == calls[i]
            m == PrimaryMeaning(FirstSenseOnly(c.words), c.word, c.op,
                                c.max_examples)
        IN  c.op \in Resolves
            => /\ m.kind = c.kind
               /\ m.exc = c.exc
               /\ m.rec = c.record
               /\ c.kind = "record"
                     => c.record.part_of_speech = PrimarySense(c).partOfSpeech

C14_Witness ==
    \E i \in 1..Len(calls) :
        LET c == calls[i]
        IN  /\ c.op \in Resolves
            /\ c.kind = "record"
            /\ Len(SelectedEntry(c).sense) >= 2
            /\ \E k \in 2..Len(SelectedEntry(c).sense) :
                   LET later == SelectedEntry(c).sense[k]
                   IN  /\ later.gloss # PrimarySense(c).gloss
                       /\ later.partOfSpeech # PrimarySense(c).partOfSpeech
                       /\ later.examples # PrimarySense(c).examples
                       /\ later.examples # <<>>
            /\ c.record.meanings # <<>>

(***************************************************************************)
(* C15: an entry, sense, example, form, gloss or sentence that lacks one   *)
(* of its keys never makes resolve raise: the outcome is a record or None. *)
(***************************************************************************)
C15_MalformedTolerated ==
    \A i \in 1..Len(calls) :
        LET c == calls[i]
        IN  (c.op \in Resolves /\ \E e \in Range(c.words) : EntryLacks(e))
            => c.kind \in {"record", "none"}

(***************************************************************************)
(* C16: in every processing mode, with or without --create, a word whose   *)
(* resolution is NotFound gets the 'No translation found' warning, gets no *)
(* error-level message, and no card creation is attempted for it.  In a    *)
(* run of the program the i-th lookup is the lookup of the i-th word.      *)
(***************************************************************************)
C16_NotFoundIsNotAFault ==
    stage = "done"
    => \A i \in 1..Len(calls) :
           calls[i].kind = "none"
           => /\ \E k \in 1..Len(log) :
                     log[k] = Msg("warning", "No translation found", i)
              /\ \A k \in 1..Len(log) :
                     log[k].pos = i => log[k].level # "error"
              /\ \A k \in 1..Len(log) : log[k] # Msg("call", "create_card", i)
              /\ \A k \in 1..Len(posts) : posts[k].pos # i

(***************************************************************************)
(* C17: when the dataset cannot be loaded (path unset, file missing,       *)
(* malformed JSON, no usable top-level words list) the program aborts      *)
(* before any lookup is performed: no word is looked up, so none is        *)
(* reported as NotFound.                                                   *)
(***************************************************************************)
UnusableDatasets ==
    {"unset", "missing", "malformed", "array", "no_words", "words_not_list"}

C17_LoadFailureIsFatal ==
    dataset.kind \in UnusableDatasets => calls = <<>>

(***************************************************************************)
(* C18: an API call whose HTTP request fails raises RequestException; one  *)
(* whose request succeeds with a non-null error field raises ValueError;   *)
(* a call returns, and then the response's result field, only when the     *)
(* request succeeded and error is null.                                    *)
(***************************************************************************)
C18_ErrorContract ==
    \A i \in 1..Len(posts) :
        LET p == posts[i]
            error == Get(p.response.data, "error", None)
        IN  p.sent
            => /\ p.response.net # "ok"
                  => (p.kind = "raise" /\ p.exc = "requests.RequestException")
               /\ (p.response.net = "ok" /\ p.response.decode = "" /\ error # None)
                  => (p.kind = "raise" /\ p.exc = "ValueError")
               /\ p.kind = "return"
                  => /\ p.response.net = "ok"
                     /\ p.response.decode = ""
                     /\ error = None
                     /\ "result" \notin p.response.data.missing
                        => p.value = p.response.data.result

(***************************************************************************)
(* C19: create_card of a record with an example pair sends one addNote     *)
(* request: word = the record's word, reading = its readings joined by     *)
(* ', ', meaning = at most the first 3 glosses joined by ', ',             *)
(* part of speech = the tags joined by ', ', sentence and translation =    *)
(* the two sides of the first example pair; tag auto-anki, allowDuplicate  *)
(* false, duplicate scope 'deck', on the configured deck.                  *)
(***************************************************************************)
C19_AddNoteFields ==
    \A i \in 1..Len(posts) :
        LET p == posts[i]
            rec == p.card.rec
        IN  (p.op = "create_card" /\ p.card.given /\ rec.examples # <<>>)
            => /\ p.sent
               /\ p.payload.action = "addNote"
               /\ p.payload.fields.word = rec.word
               /\ p.payload.fields.reading = JoinTexts(rec.readings)
               /\ p.payload.fields.meaning = JoinStrings(Take(p.card.glosses, 3))
               /\ p.payload.fields.part_of_speech = JoinStrings(rec.part_of_speech)
               /\ p.payload.fields.sentence = rec.examples[1].sentences.japanese
               /\ p.payload.fields.translation = rec.examples[1].sentences.english
               /\ p.payload.tags = <<"auto-anki">>
               /\ p.payload.allowDuplicate = FALSE
               /\ p.payload.duplicateScope = "deck"
               /\ p.payload.deckName = DeckName
               /\ p.payload.duplicateScopeOptions.deckName = DeckName

(***************************************************************************)
(* C20: entries that tie on all three ranking keys stay in dataset order,  *)
(* and without prefer_common nothing is reordered: the selected entry is   *)
(* the first matching entry in dataset order.                              *)
(***************************************************************************)
C20_TiesKeepDatasetOrder ==
    \A i \in 1..Len(calls) :
        LET c == calls[i]
        IN  c.selected # 0
            => /\ \A p, q \in 1..Len(c.results) : p < q => c.results[p] < c.results[q]
               /\ \A p, q \in 1..Len(c.ranked) :
                      (/\ c.prefer_common
                       /\ p < q
                       /\ RankOf(c.words[c.ranked[p]]) = RankOf(c.words[c.ranked[q]]))
                      => c.ranked[p] < c.ranked[q]
               /\ ~c.prefer_common
                     => /\ c.ranked = c.results
                        /\ c.selected = c.results[1]

C20_Witness ==
    \E i, j \in 1..Len(calls) :
        LET c == calls[i]
            d == calls[j]
        IN  /\ c.prefer_common
            /\ c.selected # 0
            /\ c.ranked # c.results
            /\ \E q \in 2..Len(c.ranked) :
                   /\ RankOf(c.words[c.ranked[q]]) = RankOf(SelectedEntry(c))
                   /\ c.words[c.ranked[q]] # SelectedEntry(c)
            /\ ~d.prefer_common
            /\ d.selected # 0
            /\ \E q \in Range(d.results) :
                   ~RankLeq(RankOf(SelectedEntry(d)), RankOf(d.words[q]))

(***************************************************************************)
(* C23: create_card of a record without example pairs still sends one      *)
(* addNote request, whose sentence and translation fields are both the     *)
(* empty string.                                                           *)
(***************************************************************************)
C23_NoExampleStillAdds ==
    \A i \in 1..Len(posts) :
        LET p == posts[i]
        IN  (p.op = "create_card" /\ p.card.given /\ p.card.rec.examples = <<>>)
            => /\ p.sent
               /\ p.payload.action = "addNote"
               /\ p.payload.fields.sentence = ""
               /\ p.payload.fields.translation = ""

(***************************************************************************)
(* C24: resolution considers only the best-ranked candidate of the result  *)
(* set the lookup used.  The selected entry is the first of the ranking;   *)
(* when the kanji query matched, the kana query is not run; and the        *)
(* outcome is the outcome of resolving the word against the selected entry *)
(* alone, so a selected entry without senses gives NotFound whatever the   *)
(* other candidates and the entries matching by reading hold.              *)
(***************************************************************************)
C24_NoFallback ==
    \A i \in 1..Len(calls) :
        LET c == calls[i]
            alone == PrimaryMeaning(<<SelectedEntry(c)>>, c.word, c.op,
                                    c.max_examples)
        IN  (c.op \in Resolves /\ c.selected # 0)
            => /\ c.selected = c.ranked[1]
               /\ c.kanji_query # <<>>
                  => (c.results = c.kanji_query /\ c.kana_query = NotRun)
               /\ c.kind = alone.kind
               /\ c.exc = alone.exc
               /\ c.record = alone.rec
               /\ Get(SelectedEntry(c), "sense", <<>>) = <<>> => c.kind = "none"

C24_Witness ==
    \E i \in 1..Len(calls) :
        LET c == calls[i]
        IN  /\ c.op \in Resolves
            /\ c.selected # 0
            /\ SelectedEntry(c).sense = <<>>
            /\ \E q \in 2..Len(c.ranked) : c.words[c.ranked[q]].sense # <<>>
            /\ \E j \in 1..Len(c.words) :
                   /\ j \notin Range(c.results)
                   /\ \E k \in Range(c.words[j].kana) : k.text = c.word
                   /\ c.words[j].sense # <<>>
            /\ c.kind = "none"

(***************************************************************************)
(* C21: with --create, a create_card that fails is reported as an          *)
(* 'already exists' warning when its message contains 'duplicate' in any   *)
(* case and as an error otherwise, never as a success, and it does not     *)
(* stop the batch: every word of the batch is still displayed and has its  *)
(* own creation attempted, and the batch completes.                        *)
(***************************************************************************)
SaysDuplicate(text) ==
    \E k \in 1..Len(text) : text[k] \in {"duplicate", "Duplicate", "DUPLICATE"}

Logged(m) == \E k \in 1..Len(log) : log[k] = m

Displayed(i) ==
    \/ Logged(Msg("table", "word_result", i))
    \/ Logged(Msg("warning", "No translation found", i))

C21_CardFailureDoesNotStopBatch ==
    \A f \in 1..Len(posts) :
        LET p == posts[f]
        IN  p.kind = "raise"
            => /\ IF SaysDuplicate(p.text)
                  THEN /\ Logged(Msg("warning", "Card already exists in deck", p.pos))
                       /\ ~Logged(Msg("error", "Failed to create card", p.pos))
                  ELSE /\ Logged(Msg("error", "Failed to create card", p.pos))
                       /\ ~Logged(Msg("warning", "Card already exists in deck", p.pos))
               /\ ~Logged(Msg("success", "Successfully created Anki card", p.pos))
               /\ \A i \in 1..Len(calls) :
                      /\ Displayed(i)
                      /\ Logged(Msg("call", "create_card", i))
                      /\ \E k \in 1..Len(posts) : posts[k].pos = i
               /\ Len(calls) > 1
                  => Logged(Msg("success", "Completed processing", 0))

C21_Witness ==
    /\ stage = "done"
    /\ Len(posts) = 2
    /\ posts[1].kind = "raise"
    /\ posts[1].sent
    /\ SaysDuplicate(posts[1].text)
    /\ \E k \in 1..Len(posts[1].text) : posts[1].text[k] = "Duplicate"
    /\ Logged(Msg("warning", "Card already exists in deck", 1))
    /\ posts[2].kind = "return"
    /\ Logged(Msg("table", "word_result", 2))
    /\ Logged(Msg("success", "Successfully created Anki card", 2))

(***************************************************************************)
(* C22: a batch (several words, or a word file) is processed in input      *)
(* order.  Every non-empty input word (file lines stripped, blank lines    *)
(* skipped) is resolved exactly once and displayed exactly once, the       *)
(* displays are in input order, every lookup comes before the first        *)
(* display, and with --create the creation attempt for word i comes after  *)
(* the display of word i and before the display of word i + 1, at most     *)
(* once per word.                                                          *)
(***************************************************************************)
IsBatch ==
    \/ argv.file.given /\ argv.file.exists
    \/ ~argv.file.given /\ Len(argv.words) > 1

NonBlank(line) == SelectSeq(line, LAMBDA ch : ch \notin {" ", "\n"})

InputWords ==
    IF argv.file.given
    THEN SelectSeq([k \in 1..Len(argv.file.lines) |-> NonBlank(argv.file.lines[k])],
                   LAMBDA w : w # <<>>)
    ELSE argv.words

LookupsAt(i) == {k \in 1..Len(log) : log[k] = Msg("call", "JapaneseWord", i)}

DisplaysAt(i) ==
    {k \in 1..Len(log) : log[k] \in {Msg("table", "word_result", i),
                                     Msg("warning", "No translation found", i)}}

CreationsAt(i) == {k \in 1..Len(log) : log[k] = Msg("call", "create_card", i)}

C22_BatchInInputOrder ==
    (stage = "done" /\ IsBatch)
    => /\ Len(calls) = Len(InputWords)
       /\ \A i \in 1..Len(InputWords) :
              /\ calls[i].word = InputWords[i]
              /\ Cardinality(LookupsAt(i)) = 1
              /\ Cardinality(DisplaysAt(i)) = 1
              /\ Cardinality(CreationsAt(i)) = IF argv.create THEN 1 ELSE 0
              /\ \A j \in 1..Len(InputWords) :
                     /\ \A k \in LookupsAt(i), d \in DisplaysAt(j) : k < d
                     /\ \A k \in LookupsAt(i), l \in LookupsAt(j) :
                            i < j => k < l
                     /\ \A d \in DisplaysAt(i), e \in DisplaysAt(j) :
                            i < j => d < e
              /\ \A d \in DisplaysAt(i), c \in CreationsAt(i) : d < c
              /\ \A c \in CreationsAt(i), e \in DisplaysAt(i + 1) : c < e

====
